---------------------------- MODULE Spec2Model ----------------------------
(***************************************************************************)
(* Model of ExposureSeries (src/input.cpp): add() discovers the files of   *)
(* an exposure series, check() reads and validates their metadata and      *)
(* sorts the series, load() decodes and normalizes every frame in an       *)
(* OpenMP parallel loop and estimates the saturation level.                *)
(*                                                                         *)
(* Strings are TLA+ strings.  A float is modelled by the rational it       *)
(* denotes, [n |-> numerator, d |-> denominator] (rounding is abstracted). *)
(* Integers narrower than int keep their width (uint16_t: modulo 2^16).    *)
(***************************************************************************)
EXTENDS Integers, Sequences, FiniteSets, TLC

(***************************************************************************)
(* Bounds of the model.                                                    *)
(***************************************************************************)
\* Largest index of a file on disk, and largest number of frames validated.
MaxFrames == 3
\* Largest number of frames of a series that is decoded in parallel.
MaxLoadFrames == 3
\* Cap of the loop counter of add(): the loops are cut off here.
MaxIndex == 5
\* Number of threads of the OpenMP team.
NumThreads == 2

(***************************************************************************)
(* Program constants.                                                      *)
(***************************************************************************)
\* it->value().size() > 100: larger attributes are not collected.
MaxAttrSize == 100
\* uint16_t offset = raw->blackLevel: the width of the stored black level.
UShortMod == 65536
\* (size_t) (npix*0.999) as the fraction PercentileNum / PercentileDen.
PercentileNum == 999
PercentileDen == 1000

\* The EXIF keys check() looks up by name.
RequiredKeys == {"ShutterSpeedValue", "ExposureTime", "ISOSpeed", "FNumber",
                 "ExposureMode"}
FocusKey == "CanonCs.FocusMode"

(***************************************************************************)
(* Rationals standing for float values.                                    *)
(***************************************************************************)
Rat(num, den) == IF den < 0 THEN [n |-> -num, d |-> -den] ELSE [n |-> num, d |-> den]
\* A float field that was never assigned.
NoValue       == [n |-> 0, d |-> 0]
\* A float* that is NULL.
NullImage     == [null |-> TRUE, px |-> << >>]
\* Denominators are positive; pixels of one frame share their denominator.
RatEq(a, b)   == IF a.d = b.d THEN a.n = b.n ELSE a.n * b.d = b.n * a.d
RatLess(a, b) == IF a.d = b.d THEN a.n < b.n ELSE a.n * b.d < b.n * a.d

RECURSIVE Pow2(_)
Pow2(k) == IF k <= 0 THEN 1 ELSE 2 * Pow2(k - 1)

\* std::pow(2, -apex)
Pow2Neg(apex) == IF apex >= 0 THEN Rat(1, Pow2(apex)) ELSE Rat(Pow2(-apex), 1)

(***************************************************************************)
(* Filename templates.  A template is the sequence of the pieces of a      *)
(* printf format string: literal text, the integer conversion "%d", or the *)
(* escaped percent sign "%%".                                              *)
(***************************************************************************)
RenderPiece(piece, k) ==
    IF piece = "%d" THEN ToString(k)
    ELSE IF piece = "%%" THEN "%"
    ELSE piece

RECURSIVE Snprintf(_, _)
\* snprintf(filename, sizeof(filename), fmt, exposure); the names of the
\* model are far shorter than the 1024 bytes of the buffer.
Snprintf(fmt, k) ==
    IF fmt = <<>> THEN ""
    ELSE RenderPiece(Head(fmt), k) \o Snprintf(Tail(fmt), k)

\* strchr(fmt, '%') != NULL
HasPercent(fmt) == \E i \in 1..Len(fmt) : fmt[i] \in {"%d", "%%"}

\* The template holds an integer conversion.
HasPlaceholder(fmt) == \E i \in 1..Len(fmt) : fmt[i] = "%d"


(***************************************************************************)
(* What the collaborators report for one file: the EXIF data that Exiv2    *)
(* reads from it and the image that RawSpeed decodes from it.              *)
(***************************************************************************)
\* What Exiv2 reports as the displayed exposure time of a shutter value.
NominalDen(apex) == IF apex = 7 THEN 125 ELSE IF apex = 5 THEN 30 ELSE Pow2(apex)

\* The shutter value (APEX) of the file with index k; discovery order is
\* not the order of the exposure times.
DefaultApex(k) == 3 + ((2 * k) % 7)

GoodExif(apex) ==
    [canOpen |-> TRUE,
     present |-> RequiredKeys,
     attrs   |-> << [key |-> "Exif.Image.Model", value |-> "M", size |-> 1] >>,
     apex    |-> apex,
     shown   |-> Rat(1, NominalDen(apex)),
     iso     |-> 100,
     fnumber |-> 28,
     mode    |-> "Manual",
     focus   |-> "Manual focus"]

\* A decoded 2x1 image with one uint16 of padding per row.
GoodRaw(k) ==
    [decoder |-> TRUE, supported |-> TRUE,
     subx |-> 1, suby |-> 1, dtype |-> "TYPE_USHORT16", isCFA |-> TRUE,
     dimx |-> 2, dimy |-> 1, pitch |-> 3,
     blackLevel |-> 100, whitePoint |-> 4100,
     data |-> << 2100, 100 + 1000 * (k % 4), 7 >>]

DefaultFrame(k) == [exif |-> GoodExif(DefaultApex(k)), raw |-> GoodRaw(k)]

\* The files fmt names for the indices first, first+1, ..., holding frames.
Series(fmt, first, frames) ==
    [s \in {Snprintf(fmt, first + i - 1) : i \in 1..Len(frames)} |->
        frames[CHOOSE i \in 1..Len(frames) : Snprintf(fmt, first + i - 1) = s]]

Numbered == << "img", "%d", ".cr2" >>
Templates == {Numbered, << "img.cr2" >>, << "img", "%%", ".cr2" >>}

\* Any set of files img<k>.cr2, k < MaxFrames + 1, or the one file of a
\* template without a conversion, each with a valid frame.
NamesOf(fmt) == {Snprintf(fmt, k) : k \in 0..MaxFrames}
IndexOf(fmt, s) == CHOOSE k \in 0..MaxFrames : Snprintf(fmt, k) = s
WorldsAdd ==
    UNION {{[fmt |-> f, disk |-> [s \in S |-> DefaultFrame(IndexOf(f, s))]]
              : S \in SUBSET NamesOf(f)} : f \in Templates}

\* Series img<first>.cr2, img<first+1>.cr2, ... of minLen..maxLen frames drawn
\* from a set of frames, numbered from 0 or from 1.
ChoiceSeqs(choices, minLen, maxLen) == UNION {[1..m -> choices] : m \in minLen..maxLen}
SeriesWorlds(frameSeqs) ==
    {[fmt |-> Numbered, disk |-> Series(Numbered, first, fr)]
        : first \in {0, 1}, fr \in frameSeqs}
WorldsOf(frames, minLen, maxLen) == SeriesWorlds(ChoiceSeqs(frames, minLen, maxLen))

\* Frames of 1/8, 1/30 and 1/125 s at ISO 100, and one of 1/8 s at ISO 200.
SortFrames ==
    {[exif |-> GoodExif(a), raw |-> GoodRaw(a)] : a \in {3, 5, 7}}
      \cup {[exif |-> [GoodExif(3) EXCEPT !.iso = 200], raw |-> GoodRaw(3)]}
WorldsSort == WorldsOf(SortFrames, 0, MaxFrames)

\* Frames that differ in ISO, aperture, shutter value and in what is present.
SettingsFrames ==
    {[exif |-> [GoodExif(a) EXCEPT !.iso = c[1], !.fnumber = c[2],
                                   !.present = RequiredKeys \ c[3],
                                   !.mode = c[4]],
      raw |-> GoodRaw(a)]
        : a \in {3, 5},
          c \in {<< 100, 28, {}, "Manual" >>, << 200, 28, {}, "Manual" >>,
                 << 100, 40, {}, "Auto" >>, << 100, 28, {"ISOSpeed"}, "Manual" >>,
                 << 100, 28, {"FNumber"}, "Manual" >>}}
WorldsSettings == WorldsOf(SettingsFrames, 0, MaxFrames)

\* Frames that differ in their attributes; position i has shutter value
\* DefaultApex(i), so the exposure times are distinct.
Attr(key, value, size) == [key |-> key, value |-> value, size |-> size]
AttrLists ==
    {<< >>,
     << Attr("Exif.Image.Model", "A", 1) >>,
     << Attr("Exif.Image.Model", "B", 1) >>,
     << Attr("Exif.Image.Model", "A", 1), Attr("Exif.Photo.Flash", "B", 1) >>,
     << Attr("Exif.Photo.MakerNote", "A", 101) >>}
WithAttrs(frame, attrs) == [frame EXCEPT !.exif.attrs = attrs]
WithRaw(frame, raw) == [frame EXCEPT !.raw = raw]
WorldsMerge ==
    SeriesWorlds({[i \in 1..Len(c) |-> WithAttrs(DefaultFrame(i - 1), c[i])]
                    : c \in ChoiceSeqs(AttrLists, 0, MaxFrames)})
\* Series whose frame at position i decodes to raws[i].
WorldsByRaw(raws, minLen, maxLen) ==
    SeriesWorlds({[i \in 1..Len(c) |-> WithRaw(DefaultFrame(i - 1), c[i])]
                    : c \in ChoiceSeqs(raws, minLen, maxLen)})

\* Decoded images: a 2x1 one, a 1x1 one, one per unsupported format, a file
\* no decoder knows, and one whose black level the decoder left at -1.
SmallRaw == [GoodRaw(1) EXCEPT !.dimx = 1, !.pitch = 2, !.data = << 4100, 9 >>]
NoBlackRaw == [GoodRaw(2) EXCEPT !.blackLevel = -1]
FormatRaws ==
    {GoodRaw(0),
     [GoodRaw(1) EXCEPT !.subx = 2],
     [GoodRaw(2) EXCEPT !.dtype = "TYPE_FLOAT32"],
     [GoodRaw(3) EXCEPT !.isCFA = FALSE],
     [GoodRaw(0) EXCEPT !.decoder = FALSE]}
WorldsFormat == WorldsByRaw(FormatRaws, 1, MaxLoadFrames)
WorldsTeam == WorldsByRaw({GoodRaw(0), SmallRaw}, 1, MaxLoadFrames)
WorldsPixels ==
    WorldsByRaw({GoodRaw(0), GoodRaw(3), SmallRaw, NoBlackRaw}, 1, MaxLoadFrames)

(***************************************************************************)
(* State.                                                                  *)
(***************************************************************************)
VARIABLES
    fmt,         \* the template passed to add()
    disk,        \* filename -> [exif, raw] of the files that exist
    pc,          \* where the main thread is
    exposure,    \* the loop counter of add() and of check()
    success,     \* add(): the zero-based scan found a file
    exposures,   \* ExposureSeries::exposures
    metadata,    \* ExposureSeries::metadata, key -> string
    isoSpeed,    \* check(): ISO of the first frame
    aperture,    \* check(): aperture of the first frame
    warnings,    \* number of warnings printed by check()
    error,       \* the first exception thrown, or "none"
    width,       \* ExposureSeries::width
    height,      \* ExposureSeries::height
    saturation,  \* ExposureSeries::saturation
    nextIter,    \* load(): the next iteration the dynamic schedule hands out
    tpc,         \* load(): where each thread of the team is
    ti,          \* load(): the iteration (i) each thread runs
    timage,      \* load(): each thread's local float *image
    thrown,      \* load(): the exception each iteration threw, or "none"
    critical,    \* the thread inside the critical region, or 0
    marks,       \* number of progress marks written to cout
    report,      \* the << width, height >> of the memory report, or << >>
    writes,      \* history: << iteration, location >> of every store of a worker
    reads        \* history: << iteration, location >> of every shared load of a worker

checkVars == << exposure, success, metadata, isoSpeed, aperture, warnings >>
loadVars  == << width, height, saturation, nextIter, tpc, ti, timage, thrown,
                critical, marks, report, writes, reads >>
vars == << fmt, disk, pc, exposures, error, checkVars, loadVars >>

Threads == 1..NumThreads

\* A field no constructor code of this file assigns.
Uninit == -1

\* access(filename, F_OK) == 0
Exists(filename) == filename \in DOMAIN disk

\* Exposure exp(filename)
NewExposure(filename) ==
    [filename |-> filename, exposure |-> NoValue, shown_exposure |-> NoValue,
     image |-> NullImage]

InitWith(worlds) ==
    /\ \E w \in worlds : fmt = w.fmt /\ disk = w.disk
    /\ pc = "add0"
    /\ exposure = 0
    /\ success = FALSE
    /\ exposures = << >>
    /\ metadata = << >>
    /\ isoSpeed = -1
    /\ aperture = -1
    /\ warnings = 0
    /\ error = "none"
    /\ width = Uninit
    /\ height = Uninit
    /\ saturation = NoValue
    /\ nextIter = 0
    /\ tpc = [t \in Threads |-> "idle"]
    /\ ti = [t \in Threads |-> 0]
    /\ timage = [t \in Threads |-> NullImage]
    /\ thrown = << >>
    /\ critical = 0
    /\ marks = 0
    /\ report = << >>
    /\ writes = {}
    /\ reads = {}

(***************************************************************************)
(* ExposureSeries::add                                                     *)
(***************************************************************************)
\* The file of this iteration is missing: the loop of add() breaks.
ScanBreaks(filename) == ~Exists(filename)

\* One iteration of the zero-based scan.
AddScan ==
    /\ pc = "add0"
    /\ exposure < MaxIndex
    /\ LET filename == Snprintf(fmt, exposure) IN
         IF ScanBreaks(filename) \/ (exposure = 1 /\ ~HasPercent(fmt))
         THEN /\ pc' = IF success THEN "added" ELSE "add1"
              /\ exposure' = IF success THEN exposure ELSE 1
              /\ UNCHANGED << success, exposures >>
         ELSE /\ success' = TRUE
              /\ exposures' = Append(exposures, NewExposure(filename))
              /\ exposure' = exposure + 1
              /\ pc' = pc
    /\ UNCHANGED << fmt, disk, metadata, isoSpeed, aperture, warnings, error, loadVars >>

\* One iteration of the scan that starts at 1, run when the first found nothing.
AddRescan ==
    /\ pc = "add1"
    /\ exposure < MaxIndex
    /\ LET filename == Snprintf(fmt, exposure) IN
         IF ScanBreaks(filename)
         THEN /\ pc' = "added"
              /\ UNCHANGED << exposure, exposures >>
         ELSE /\ exposures' = Append(exposures, NewExposure(filename))
              /\ exposure' = exposure + 1
              /\ pc' = pc
    /\ UNCHANGED << fmt, disk, success, metadata, isoSpeed, aperture, warnings, error,
                    loadVars >>

(***************************************************************************)
(* ExposureSeries::check                                                   *)
(***************************************************************************)
\* check() is entered on the series that add() found.
CheckBegin ==
    /\ pc = "added"
    /\ pc' = "check"
    /\ exposure' = 0
    /\ isoSpeed' = -1
    /\ aperture' = -1
    /\ UNCHANGED << fmt, disk, success, exposures, metadata, warnings, error,
                    loadVars >>

\* The body of the loop over one frame's attributes: collect one attribute.
MergeAttr(md, a) ==
    IF a.size > MaxAttrSize THEN md
    ELSE IF a.key \in DOMAIN md
         THEN IF a.value = md[a.key] THEN md
              ELSE [md EXCEPT ![a.key] = md[a.key] \o "; " \o a.value]
         ELSE md @@ (a.key :> a.value)

RECURSIVE MergeAll(_, _)
\* The loop over exifData.begin() .. exifData.end().
MergeAll(md, attrs) ==
    IF attrs = << >> THEN md
    ELSE MergeAll(MergeAttr(md, Head(attrs)), Tail(attrs))

\* A variant that compares the first frame too.
SettingDiffersAlways(index, reference, value) == reference # value

\* The first frame sets the reference value, a later frame must equal it.
SettingDiffers(index, reference, value) == index # 0 /\ reference # value

\* exifData.findKey(key) != exifData.end(), and the named accessors
Has(exif, key) == key \in exif.present

\* The number of warnings one frame causes.
FrameWarnings(exif) ==
    (IF exif.mode # "Manual" THEN 1 ELSE 0)
    + (IF Has(exif, FocusKey) /\ exif.focus # "Manual focus" THEN 1 ELSE 0)

\* The exception one iteration of the loop of check() throws, or "none".
FrameError(index, exif, iso, ap) ==
    IF ~exif.canOpen THEN "could_not_open"
    ELSE IF ~Has(exif, "ShutterSpeedValue") THEN "no_exposure_time"
    ELSE IF ~Has(exif, "ExposureTime") THEN "no_exposure_time"
    ELSE IF ~Has(exif, "ISOSpeed") THEN "no_iso"
    ELSE IF SettingDiffers(index, iso, exif.iso) THEN "iso_differs"
    ELSE IF ~Has(exif, "FNumber") THEN "no_aperture"
    ELSE IF SettingDiffers(index, ap, exif.fnumber) THEN "aperture_differs"
    ELSE IF ~Has(exif, "ExposureMode") THEN "no_exposure_mode"
    ELSE "none"

\* One iteration of the loop over the frames, in discovery order.
CheckFrame ==
    /\ pc = "check"
    /\ exposure < Len(exposures)
    /\ LET exp  == exposures[exposure + 1]
           exif == disk[exp.filename].exif
           err  == FrameError(exposure, exif, isoSpeed, aperture)
           \* how far the iteration gets before it throws
           gotApex  == exif.canOpen /\ Has(exif, "ShutterSpeedValue")
           gotShown == gotApex /\ Has(exif, "ExposureTime")
           gotIso   == gotShown /\ Has(exif, "ISOSpeed")
           gotAp    == gotIso /\ ~SettingDiffers(exposure, isoSpeed, exif.iso)
                              /\ Has(exif, "FNumber")
       IN
         /\ metadata' = IF exif.canOpen THEN MergeAll(metadata, exif.attrs)
                        ELSE metadata
         /\ exposures' = [exposures EXCEPT ![exposure + 1] =
                [exp EXCEPT
                   !.exposure = IF gotApex THEN Pow2Neg(exif.apex) ELSE @,
                   !.shown_exposure = IF gotShown THEN exif.shown ELSE @]]
         /\ isoSpeed' = IF gotIso /\ exposure = 0 THEN exif.iso ELSE isoSpeed
         /\ aperture' = IF gotAp /\ exposure = 0 THEN exif.fnumber ELSE aperture
         /\ warnings' = IF err = "none" THEN warnings + FrameWarnings(exif)
                        ELSE warnings
         /\ error' = err
         /\ pc' = IF err = "none" THEN pc ELSE "failed"
         /\ exposure' = IF err = "none" THEN exposure + 1 ELSE exposure
    /\ UNCHANGED << fmt, disk, success, loadVars >>

\* A variant that sorts in descending order.
ExposureGreater(a, b) == RatLess(b.exposure, a.exposure)

\* The comparator of std::sort: a.exposure < b.exposure.
ExposureLess(a, b) == RatLess(a.exposure, b.exposure)

\* The predicate of std::adjacent_find: a.exposure == b.exposure.
ExposureEqual(a, b) == RatEq(a.exposure, b.exposure)

IndexPermutations(n) == {p \in [1..n -> 1..n] : \A i, j \in 1..n : p[i] = p[j] => i = j}

\* What std::sort may leave: a permutation in which no element is less than
\* an earlier one (the order of equal elements is unspecified).
SortResults(s) ==
    {t \in {[i \in 1..Len(s) |-> s[p[i]]] : p \in IndexPermutations(Len(s))} :
        \A i, j \in 1..Len(t) : i < j => ~ExposureLess(t[j], t[i])}

\* std::adjacent_find(...) != exposures.end()
HasAdjacentDuplicate(s) ==
    \E i \in 1..(Len(s) - 1) : ExposureEqual(s[i], s[i + 1])

\* After the loop: sort, report, and look for a duplicate exposure time.
CheckFinish ==
    /\ pc = "check"
    /\ exposure = Len(exposures)
    /\ \E sorted \in SortResults(exposures) :
         /\ exposures' = sorted
         /\ error' = IF HasAdjacentDuplicate(sorted) THEN "duplicate" ELSE "none"
         /\ pc' = IF HasAdjacentDuplicate(sorted) THEN "failed" ELSE "checked"
    /\ UNCHANGED << fmt, disk, checkVars, loadVars >>

(***************************************************************************)
(* ExposureSeries::load                                                    *)
(***************************************************************************)
FormatErrors == {"subsampled", "not_16bit", "no_cfa"}

\* Memory locations the workers touch.
LocWidth     == "this->width"
LocHeight    == "this->height"
LocCout      == "cout"
LocSize      == "exposures.size()"
LocCameras   == "metadata"
LocFilename(i) == "exposures[" \o ToString(i) \o "].filename"
LocImage(i)    == "exposures[" \o ToString(i) \o "].image"
LocBuffer(i)   == "image of iteration " \o ToString(i)

\* load() is entered on the validated series: the parallel region starts.
LoadBegin ==
    /\ pc = "checked"
    /\ pc' = "load"
    /\ nextIter' = 0
    /\ tpc' = [t \in Threads |-> "idle"]
    /\ thrown' = [i \in 0..(Len(exposures) - 1) |-> "none"]
    /\ UNCHANGED << fmt, disk, exposures, error, checkVars, width, height,
                    saturation, ti, timage, critical, marks, report, writes, reads >>

\* The team runs until the process ends: a thread that threw ends it, and the
\* other threads may still take steps before it is gone.
TeamRuns == pc \in {"load", "terminating"}

\* schedule(dynamic, 1): an idle thread takes the next iteration, if any.
ThreadTake(t) ==
    /\ TeamRuns
    /\ tpc[t] = "idle"
    /\ IF nextIter < Len(exposures)
       THEN /\ ti' = [ti EXCEPT ![t] = nextIter]
            /\ nextIter' = nextIter + 1
            /\ tpc' = [tpc EXCEPT ![t] = "decode"]
       ELSE /\ tpc' = [tpc EXCEPT ![t] = "finished"]
            /\ UNCHANGED << ti, nextIter >>
    /\ reads' = reads \cup {<< nextIter, LocSize >>}
    /\ UNCHANGED << fmt, disk, pc, exposures, error, checkVars, width, height,
                    saturation, timage, thrown, critical, marks, report, writes >>

\* A variant that accepts sensors without a color filter array.
DecodeErrorWithoutCfaTest(raw) ==
    IF ~raw.decoder THEN "no_decoder"
    ELSE IF ~raw.supported THEN "decoder_rejects"
    ELSE IF raw.subx # 1 \/ raw.suby # 1 THEN "subsampled"
    ELSE IF raw.dtype # "TYPE_USHORT16" THEN "not_16bit"
    ELSE "none"

\* The exception the decode of one file throws before any pixel is touched.
DecodeError(raw) ==
    IF ~raw.decoder THEN "no_decoder"
    ELSE IF ~raw.supported THEN "decoder_rejects"
    ELSE IF raw.subx # 1 \/ raw.suby # 1 THEN "subsampled"
    ELSE IF raw.dtype # "TYPE_USHORT16" THEN "not_16bit"
    ELSE IF ~raw.isCFA THEN "no_cfa"
    ELSE "none"

\* Read and decode the file of iteration i, and reject unsupported images.
ThreadDecode(t) ==
    /\ TeamRuns
    /\ tpc[t] = "decode"
    /\ LET i   == ti[t]
           err == DecodeError(disk[exposures[i + 1].filename].raw)
       IN
         /\ reads' = reads \cup {<< i, LocFilename(i) >>, << i, LocCameras >>}
         /\ thrown' = [thrown EXCEPT ![i] = err]
         /\ IF err = "none"
            THEN /\ tpc' = [tpc EXCEPT ![t] = "dims"]
                 /\ UNCHANGED << pc, error >>
            ELSE /\ tpc' = [tpc EXCEPT ![t] = "threw"]
                 /\ pc' = "terminating"
                 /\ error' = IF error = "none" THEN err ELSE error
    /\ UNCHANGED << fmt, disk, exposures, checkVars, width, height, saturation,
                    nextIter, ti, timage, critical, marks, report, writes >>

\* if (i == 0) { this->width = width; this->height = height; }
SetsDimensions(i) == i = 0

ThreadDims(t) ==
    /\ TeamRuns
    /\ tpc[t] = "dims"
    /\ LET i   == ti[t]
           raw == disk[exposures[i + 1].filename].raw
       IN
         IF SetsDimensions(i)
         THEN /\ width' = raw.dimx
              /\ height' = raw.dimy
              /\ writes' = writes \cup {<< i, LocWidth >>, << i, LocHeight >>}
         ELSE UNCHANGED << width, height, writes >>
    /\ tpc' = [tpc EXCEPT ![t] = "normalize"]
    /\ UNCHANGED << fmt, disk, pc, exposures, error, checkVars, saturation,
                    nextIter, ti, timage, thrown, critical, marks, report, reads >>

\* uint16_t offset = raw->blackLevel
BlackOffset(raw) == raw.blackLevel % UShortMod

\* (*src++ - offset) * factor, factor = 1.0f / (raw->whitePoint - offset)
NormalizePixel(sample, offset, whitePoint) == Rat(sample - offset, whitePoint - offset)

\* The two loops over y and x: row y of the image starts at data + y*pitch.
Normalize(raw) ==
    [p \in 1..(raw.dimx * raw.dimy) |->
        LET y == (p - 1) \div raw.dimx
            x == (p - 1) % raw.dimx
        IN  NormalizePixel(raw.data[y * raw.pitch + x + 1], BlackOffset(raw),
                           raw.whitePoint)]

\* Allocate the float buffer of this iteration and fill it.
ThreadNormalize(t) ==
    /\ TeamRuns
    /\ tpc[t] = "normalize"
    /\ LET i   == ti[t]
           raw == disk[exposures[i + 1].filename].raw
       IN
         /\ timage' = [timage EXCEPT ![t] = [null |-> FALSE, px |-> Normalize(raw)]]
         /\ writes' = writes \cup {<< i, LocBuffer(i) >>}
    /\ tpc' = [tpc EXCEPT ![t] = "store"]
    /\ UNCHANGED << fmt, disk, pc, exposures, error, checkVars, width, height,
                    saturation, nextIter, ti, thrown, critical, marks, report, reads >>

\* The Exposure whose image field iteration i assigns.
StoreTarget(i) == i

\* exposures[i].image = image
ThreadStore(t) ==
    /\ TeamRuns
    /\ tpc[t] = "store"
    /\ LET i == ti[t] IN
         /\ exposures' = [exposures EXCEPT ![StoreTarget(i) + 1].image = timage[t]]
         /\ writes' = writes \cup {<< i, LocImage(StoreTarget(i)) >>}
    /\ tpc' = [tpc EXCEPT ![t] = "lock"]
    /\ UNCHANGED << fmt, disk, pc, error, checkVars, width, height, saturation,
                    nextIter, ti, timage, thrown, critical, marks, report, reads >>

\* A variant without the critical region.
CriticalAlwaysFree(t) == TRUE

\* #pragma omp critical: a thread enters when no thread is inside.
CriticalFree(t) == critical = 0

ThreadEnter(t) ==
    /\ TeamRuns
    /\ tpc[t] = "lock"
    /\ CriticalFree(t)
    /\ critical' = t
    /\ tpc' = [tpc EXCEPT ![t] = "print"]
    /\ UNCHANGED << fmt, disk, pc, exposures, error, checkVars, width, height,
                    saturation, nextIter, ti, timage, thrown, marks, report,
                    writes, reads >>

\* cout << "."; cout.flush(); and the end of the critical region
ThreadPrint(t) ==
    /\ TeamRuns
    /\ tpc[t] = "print"
    /\ marks' = marks + 1
    /\ writes' = writes \cup {<< ti[t], LocCout >>}
    /\ critical' = 0
    /\ tpc' = [tpc EXCEPT ![t] = "idle"]
    /\ UNCHANGED << fmt, disk, pc, exposures, error, checkVars, width, height,
                    saturation, nextIter, ti, timage, thrown, report, reads >>

\* The implicit barrier that ends the parallel loop.
TeamDone == \A t \in Threads : tpc[t] = "finished"

LoadJoin ==
    /\ pc = "load"
    /\ TeamDone
    /\ pc' = "report"
    /\ UNCHANGED << fmt, disk, exposures, error, checkVars, loadVars >>

\* cout << " done (" << width << "x" << height << ... << " MiB of memory)"
LoadReport ==
    /\ pc = "report"
    /\ report' = << width, height >>
    /\ pc' = "estimate"
    /\ UNCHANGED << fmt, disk, exposures, error, checkVars, width, height,
                    saturation, nextIter, tpc, ti, timage, thrown, critical,
                    marks, writes, reads >>

\* size_t percentile = (size_t) (npix*0.999)
Percentile(npix) == (npix * PercentileNum) \div PercentileDen

RatLeq(a, b) == ~RatLess(b, a)

\* std::nth_element(temp, temp+k, temp+n); *(temp+k): the value that a full
\* ascending sort puts at index k (0-based).
NthElement(temp, k) ==
    CHOOSE v \in {temp[p] : p \in 1..Len(temp)} :
        /\ Cardinality({p \in 1..Len(temp) : RatLess(temp[p], v)}) <= k
        /\ Cardinality({p \in 1..Len(temp) : RatLeq(temp[p], v)}) > k

\* The Exposure whose pixels the estimator copies: exposures[size()-1].
SaturationSource(s) == s[Len(s)]

\* The estimator reads only memory that holds pixels of the source frame.
EstimateDefined ==
    /\ Len(exposures) > 0
    /\ width # Uninit /\ height # Uninit
    /\ width * height > 0
    /\ ~SaturationSource(exposures).image.null
    /\ width * height <= Len(SaturationSource(exposures).image.px)

\* What a read of memory that holds no pixel of the frame may yield.
Garbage == {Rat(0, 1), Rat(-7, 3), Rat(65535, 1)}

\* Determine the value of a pixel considered to be overexposed.
Estimate ==
    /\ pc = "estimate"
    /\ IF EstimateDefined
       THEN /\ saturation' = NthElement(
                   SubSeq(SaturationSource(exposures).image.px, 1, width * height),
                   Percentile(width * height))
            /\ pc' = "done"
       ELSE \* undefined behaviour: a crash, or some value
            \E v \in Garbage \cup {NoValue} :
               /\ saturation' = v
               /\ pc' = IF v = NoValue THEN "crashed" ELSE "done"
    /\ UNCHANGED << fmt, disk, exposures, error, checkVars, width, height,
                    nextIter, tpc, ti, timage, thrown, critical, marks, report,
                    writes, reads >>

Next ==
    \/ AddScan \/ AddRescan
    \/ CheckBegin \/ CheckFrame \/ CheckFinish
    \/ LoadBegin
    \/ \E t \in Threads :
         \/ ThreadTake(t) \/ ThreadDecode(t) \/ ThreadDims(t)
         \/ ThreadNormalize(t) \/ ThreadStore(t) \/ ThreadEnter(t) \/ ThreadPrint(t)
    \/ LoadJoin \/ LoadReport \/ Estimate

\* add() on any template and any set of files.
Spec == InitWith(WorldsAdd) /\ [][Next]_vars
\* Series that differ in the exposure times of their frames.
SpecSort == InitWith(WorldsSort) /\ [][Next]_vars
\* Series that differ in ISO, aperture and in the fields that are present.
SpecSettings == InitWith(WorldsSettings) /\ [][Next]_vars
\* Series that differ in the attributes of their frames.
SpecMerge == InitWith(WorldsMerge) /\ [][Next]_vars
\* Series that differ in the format of their decoded images.
SpecFormat == InitWith(WorldsFormat) /\ [][Next]_vars
\* Series of supported images, decoded by the team of threads.
SpecTeam == InitWith(WorldsTeam) /\ [][Next]_vars
\* Series that differ in dimensions, samples and black level.
SpecPixels == InitWith(WorldsPixels) /\ [][Next]_vars

(***************************************************************************)
(* Properties.                                                             *)
(***************************************************************************)
Frame(i) == disk[exposures[i].filename]
Indices == 1..Len(exposures)
InAdd == pc \in {"add0", "add1"}
BeforeCheckEnds == InAdd \/ pc \in {"added", "check"}
InLoad == pc \in {"load", "terminating", "report", "estimate", "done", "crashed"}
FilenamesOf(s) == [i \in 1..Len(s) |-> s[i].filename]
ShownOf(s) == [i \in 1..Len(s) |-> s[i].shown_exposure]

\* The loop of check() passed every frame, and the sort and the scan ran.
CheckRanToItsEnd == ~BeforeCheckEnds /\ exposure = Len(exposures)

StrictlyIncreasing(s) ==
    \A i, j \in 1..Len(s) : i < j => RatLess(s[i].exposure, s[j].exposure)

\* Two frames have the same derived exposure time.
SomeTwoShareTime(s) ==
    \E i, j \in 1..Len(s) :
        /\ i # j
        /\ s[i].exposure # NoValue /\ s[j].exposure # NoValue
        /\ RatEq(s[i].exposure, s[j].exposure)

\* C1: if check() returns, the series is strictly increasing by exposure
\* time; if any two frames, adjacent in discovery order or not, share their
\* derived time, check() fails, and once its loop has read every frame it
\* fails with the duplicate error exactly then; frames shown as 1/125, 1/30
\* and 1/8 s end up in that order.
C1_SortedOrDuplicate ==
    ~BeforeCheckEnds =>
        /\ pc # "failed" => StrictlyIncreasing(exposures)
        /\ SomeTwoShareTime(exposures) => pc = "failed"
        /\ CheckRanToItsEnd =>
              (SomeTwoShareTime(exposures) <=> (pc = "failed" /\ error = "duplicate"))
        /\ (pc # "failed" /\ Len(exposures) = 3
              /\ {exposures[i].shown_exposure : i \in Indices}
                   = {Rat(1, 125), Rat(1, 30), Rat(1, 8)})
           => ShownOf(exposures) = << Rat(1, 125), Rat(1, 30), Rat(1, 8) >>

\* check() returned on frames discovered as 1/30, 1/125, 1/8 and reordered them.
C1_Witness ==
    /\ pc = "checked"
    /\ ShownOf(exposures) = << Rat(1, 125), Rat(1, 30), Rat(1, 8) >>
    /\ FilenamesOf(exposures) = << "img1.cr2", "img0.cr2", "img2.cr2" >>

FirstDiscovered == Snprintf(fmt, IF Exists(Snprintf(fmt, 0)) THEN 0 ELSE 1)

AllFieldsPresent ==
    \A i \in Indices : Frame(i).exif.canOpen /\ RequiredKeys \subseteq Frame(i).exif.present

SomeLaterFrameDiffers ==
    \E i \in Indices :
        /\ exposures[i].filename # FirstDiscovered
        /\ \/ Frame(i).exif.iso # disk[FirstDiscovered].exif.iso
           \/ Frame(i).exif.fnumber # disk[FirstDiscovered].exif.fnumber

DistinctShutterValues ==
    \A i, j \in Indices : i # j => Frame(i).exif.apex # Frame(j).exif.apex

\* C2: when every frame has all required fields, check() ends with the
\* inconsistent-settings error exactly if some frame after the first differs
\* from the first in ISO or aperture, and it succeeds if ISO and aperture agree
\* and the exposure times are pairwise distinct.
C2_InconsistentSettings ==
    (~BeforeCheckEnds /\ AllFieldsPresent) =>
        /\ SomeLaterFrameDiffers
             <=> (pc = "failed" /\ error \in {"iso_differs", "aperture_differs"})
        /\ (~SomeLaterFrameDiffers /\ DistinctShutterValues) => pc # "failed"

\* The third of three complete frames has another aperture.
C2_Witness ==
    /\ pc = "failed" /\ error = "aperture_differs"
    /\ AllFieldsPresent
    /\ Len(exposures) = 3 /\ exposure = 2

\* C3: merging again a key/value pair that check() has already merged leaves
\* the series-level dictionary unchanged.
C3_MergeIdempotent ==
    pc = "check" =>
        \A i \in 1..exposure :
            \A k \in 1..Len(Frame(i).exif.attrs) :
                MergeAttr(metadata, Frame(i).exif.attrs[k]) = metadata

\* C4: check() does not complete on an empty series, so load() and the
\* estimator never run on one.
C4_EmptyNeverPasses == Len(exposures) = 0 => (BeforeCheckEnds \/ pc = "failed")

\* The run of consecutive indices from k0 whose files all exist.
RunFrom(k0) ==
    LET n == CHOOSE m \in 0..(MaxFrames + 1) :
                 /\ \A k \in k0..(k0 + m - 1) : Exists(Snprintf(fmt, k))
                 /\ ~Exists(Snprintf(fmt, k0 + m))
    IN  [i \in 1..n |-> Snprintf(fmt, k0 + i - 1)]

ExpectedFiles ==
    IF HasPlaceholder(fmt)
    THEN RunFrom(IF Exists(Snprintf(fmt, 0)) THEN 0 ELSE 1)
    ELSE IF Exists(Snprintf(fmt, 0)) THEN << Snprintf(fmt, 0) >> ELSE << >>

\* C5: add() appends the maximal run of existing files from index 0, or from
\* index 1 when the file of index 0 is missing; for a template without a
\* placeholder it appends the file once if it exists; and it terminates: it
\* never looks past the first missing index.
C5_AddFindsTheRun ==
    /\ ~BeforeCheckEnds \/ pc \in {"added", "check"}
          => \A i \in Indices : exposures[i].filename \in DOMAIN disk
    /\ pc = "added" => FilenamesOf(exposures) = ExpectedFiles
    /\ InAdd => Len(exposures) <= Len(ExpectedFiles)

\* The raw sample behind pixel p (1-based, row-major) of a decoded image.
SampleAt(raw, p) == raw.data[((p - 1) \div raw.dimx) * raw.pitch + ((p - 1) % raw.dimx) + 1]

LongestExposure ==
    CHOOSE i \in Indices : \A j \in Indices : ~RatLess(exposures[i].exposure, exposures[j].exposure)

\* C6: after load() the saturation is the value at rank floor(N*0.999),
\* N = width*height, of the ascending sort of the pixels of the last element of
\* the sorted series, the frame with the longest exposure time, and that rank
\* is an index into that frame's buffer.
C6_SaturationIsTheRank ==
    pc \in {"estimate", "done"} =>
        LET px == exposures[Len(exposures)].image.px
            rank == (width * height * 999) \div 1000
        IN  /\ LongestExposure = Len(exposures)
            /\ rank < Len(px)
            /\ pc = "done" => saturation = NthElement(px, rank)

UnsupportedFormat(raw) ==
    /\ raw.decoder /\ raw.supported
    /\ raw.subx # 1 \/ raw.suby # 1 \/ raw.dtype # "TYPE_USHORT16" \/ ~raw.isCFA

Running(i) == {t \in Threads : ti[t] = i /\ tpc[t] \notin {"idle", "finished"}}

\* C7: with a frame whose decoded image is subsampled, not 16-bit or without a
\* color filter array, load() never reaches its report, the saturation is
\* never set, the worker of that frame throws the unsupported-format error
\* and ends the operation, and that worker stores nothing: no buffer, no image
\* field, no other exposure's state.
C7_UnsupportedFormatRejected ==
    InLoad =>
        \A i \in Indices :
            UnsupportedFormat(Frame(i).raw) =>
                /\ pc \in {"load", "terminating"}
                /\ saturation = NoValue
                /\ report = << >>
                /\ thrown[i - 1] \in FormatErrors \cup {"none"}
                /\ \A t \in Running(i - 1) : tpc[t] \in {"decode", "threw"}
                /\ (\E t \in Running(i - 1) : tpc[t] = "threw")
                      => /\ thrown[i - 1] \in FormatErrors
                         /\ pc = "terminating"
                         /\ error # "none"
                /\ \A w \in writes : w[1] # i - 1
                /\ exposures[i].image.null

\* A subsampled frame ended load() after another frame's image was stored.
C7_Witness ==
    /\ pc = "terminating"
    /\ error = "subsampled"
    /\ \E i \in Indices : ~exposures[i].image.null
    /\ \E i \in Indices : UnsupportedFormat(Frame(i).raw) /\ thrown[i - 1] = "subsampled"

\* C8: every stored pixel equals (raw - blackLevel) / (whitePoint - blackLevel)
\* for the black level and white point the decoder reports; black level 100,
\* white point 4100 and sample 2100 give 1/2.
C8_NormalizedIsLinear ==
    \A i \in Indices :
        ~exposures[i].image.null =>
            LET raw == Frame(i).raw
                px  == exposures[i].image.px
            IN  /\ Len(px) = raw.dimx * raw.dimy
                /\ \A p \in 1..Len(px) :
                      /\ RatEq(px[p], Rat(SampleAt(raw, p) - raw.blackLevel,
                                          raw.whitePoint - raw.blackLevel))
                      /\ (raw.blackLevel = 100 /\ raw.whitePoint = 4100
                             /\ SampleAt(raw, p) = 2100) => RatEq(px[p], Rat(1, 2))

MutualExclusion == Cardinality({t \in Threads : tpc[t] = "print"}) <= 1

\* No location but the progress stream is written by two workers, or written
\* by one worker and read by another.
NoSharedWrite ==
    \A w \in writes :
        w[2] # LocCout =>
            /\ \A v \in writes : v[2] = w[2] => v[1] = w[1]
            /\ \A r \in reads : r[2] = w[2] => r[1] = w[1]

\* One progress mark per frame that completed its iteration.
OneMarkPerFrame ==
    InLoad =>
        /\ marks = Cardinality({i \in Indices : ~exposures[i].image.null})
                     - Cardinality({t \in Threads : tpc[t] \in {"lock", "print"}})
        /\ pc \in {"report", "estimate", "done", "crashed"} => marks = Len(exposures)

\* C9 as stated: at most one worker writes progress at a time, every other
\* write of a worker goes to its own Exposure's buffer and image field, no
\* other location is shared, and there is one mark per completed frame.
C9_WorkersWriteOnlyTheirExposure ==
    /\ MutualExclusion
    /\ \A w \in writes : w[2] \in {LocCout, LocBuffer(w[1]), LocImage(w[1])}
    /\ NoSharedWrite
    /\ OneMarkPerFrame

\* C9 as amended: the worker of iteration 0 also writes the width and the
\* height of the series, which no other worker writes or reads.
C9_WorkersShareOnlyProgress ==
    /\ MutualExclusion
    /\ \A w \in writes :
          \/ w[2] \in {LocCout, LocBuffer(w[1]), LocImage(w[1])}
          \/ w[1] = 0 /\ w[2] \in {LocWidth, LocHeight}
    /\ NoSharedWrite
    /\ OneMarkPerFrame

\* One thread prints while the other waits for the critical region, after
\* the worker of iteration 0 has set the dimensions.
C9_Witness ==
    /\ \E t, u \in Threads : tpc[t] = "print" /\ tpc[u] = "lock"
    /\ << 0, LocWidth >> \in writes
    /\ marks >= 1

\* C10: when the report reads width and height and when the estimator starts,
\* every worker has completed, every exposure's buffer is fully written, and
\* width and height have been set from a decoded frame.
C10_EstimatorAfterWorkers ==
    pc \in {"report", "estimate"} =>
        /\ TeamDone
        /\ \A i \in Indices :
              /\ ~exposures[i].image.null
              /\ Len(exposures[i].image.px) = Frame(i).raw.dimx * Frame(i).raw.dimy
        /\ \E i \in Indices : width = Frame(i).raw.dimx /\ height = Frame(i).raw.dimy
=============================================================================
